---- MODULE Spec2Model ----
(***************************************************************************)
(* LWR-PRF client (src/lwr-prf-client.py) and the test-vector script       *)
(* (src/generate_test_vectors.py): the secret-key store, the PRF           *)
(* evaluation pipeline, the keystream generator and the transcipher.       *)
(***************************************************************************)
EXTENDS Integers, Sequences, FiniteSets, TLC

(***************************************************************************)
(* Bounds of the model.                                                    *)
(***************************************************************************)
MaxDim == 2      \* largest key dimension n
MaxRing == 3     \* largest ring dimension N
MaxP == 3        \* largest plaintext modulus p
MaxIp == 18      \* largest inner product fed to the rounding pipeline alone
MaxLen == 2      \* longest message / largest count
MaxNonce == 2    \* number of distinct nonces (byte strings)
MaxStored == 2   \* largest whole part of a number stored in a key file
MaxSeed == 1     \* largest seed passed to a construction

VARIABLES
    \* ---- secret key store ----
    dim,        \* the n every construction on this key-file path is configured with
    file,       \* the key file: [exists, n_lwr, secret_key]
    client,     \* the object the latest construction produced: [ok, n, N, p, s]
    ctor,       \* the latest construction call: [force, path, err]
    \* ---- rounding pipeline on a bare inner product ----
    par,        \* [N, p]
    ip,         \* the inner product value
    ev,         \* intermediates of evaluate:          [set, inner_mod_2N, msb, ...]
    evm,        \* intermediates of evaluate_multiple: [set, inner_mod_2N, msb, ...]
    \* ---- inner product accumulation ----
    vec,        \* [a, s]: the two uint64 arrays handed to np.dot
    acc,        \* the uint64 result of np.dot, as limbs
    \* ---- keystream and transcipher ----
    inp,        \* the caller's inputs: [nonce, message]
    call        \* the latest call on the client: [op, x, count, arg, prf_stream, ret, plain]

keyVars == <<dim, file, client, ctor>>
prfVars == <<par, ip, ev, evm>>
dotVars == <<vec, acc>>
cipherVars == <<inp, call>>
vars == <<dim, file, client, ctor, par, ip, ev, evm, vec, acc, inp, call>>

(***************************************************************************)
(* uint64 arithmetic.  A uint64 is four 16-bit limbs, least significant    *)
(* first; an addition that carries out of the top limb wraps (mod 2^64).   *)
(***************************************************************************)
LimbBase == 2^16

U64Zero == <<0, 0, 0, 0>>

\* acc + v (mod 2^64) for a uint64 acc and 0 <= v < LimbBase
U64Add(u, v) ==
    LET t1 == u[1] + v
        t2 == u[2] + (t1 \div LimbBase)
        t3 == u[3] + (t2 \div LimbBase)
        t4 == u[4] + (t3 \div LimbBase)
    IN  <<t1 % LimbBase, t2 % LimbBase, t3 % LimbBase, t4 % LimbBase>>

\* the integer a uint64 holds, when it is below 2^30
U64Fits(u) == u[3] = 0 /\ u[4] = 0 /\ u[2] < 2^14

U64Value(u) == u[1] + LimbBase * u[2]

RECURSIVE DotFrom(_, _, _, _)
DotFrom(a, s, i, u) ==
    IF i > Len(a) THEN u
    ELSE DotFrom(a, s, i + 1, U64Add(u, a[i] * s[i]))

\* a faulty variant: an accumulator of three bits, which wraps within the model's bounds
NarrowBase == 2^3

RECURSIVE DotFromNarrow(_, _, _, _)
DotFromNarrow(a, s, i, u) ==
    IF i > Len(a) THEN u
    ELSE DotFromNarrow(a, s, i + 1, <<(u[1] + a[i] * s[i]) % NarrowBase, 0, 0, 0>>)

np_dot_narrow(a, s) == DotFromNarrow(a, s, 1, U64Zero)

\* np.dot(a, self.s) on two uint64 arrays of equal length
np_dot(a, s) == DotFrom(a, s, 1, U64Zero)

\* the exact integer sum, for comparison
RECURSIVE ExactSum(_, _, _)
ExactSum(a, s, i) == IF i > Len(a) THEN 0 ELSE a[i] * s[i] + ExactSum(a, s, i + 1)

(***************************************************************************)
(* The rounding pipeline.  The source holds it three times: in evaluate,   *)
(* in the loop body of evaluate_multiple, and in the manual calculation of *)
(* the test-vector script.                                                 *)
(***************************************************************************)
NoSteps == [set |-> FALSE, inner_mod_2N |-> 0, msb |-> 0, inner_mod_N |-> 0,
            rounded |-> 0, result |-> 0]

\* a faulty variant: the sign step without its final mod p
evaluate_steps_no_mod(inner_product, N, p) ==
    LET inner_mod_2N == inner_product % (2 * N)
        msb == IF inner_mod_2N >= N THEN 1 ELSE 0
        inner_mod_N == inner_product % N
        rounded == (p * inner_mod_N) \div N
        result == IF msb = 1 THEN p - rounded ELSE rounded
    IN  [set |-> TRUE, inner_mod_2N |-> inner_mod_2N, msb |-> msb,
         inner_mod_N |-> inner_mod_N, rounded |-> rounded, result |-> result]

evaluate_steps(inner_product, N, p) ==
    LET inner_mod_2N == inner_product % (2 * N)
        msb == IF inner_mod_2N >= N THEN 1 ELSE 0
        inner_mod_N == inner_product % N
        rounded == (p * inner_mod_N) \div N
        result == IF msb = 1 THEN (p - rounded) % p ELSE rounded % p
    IN  [set |-> TRUE, inner_mod_2N |-> inner_mod_2N, msb |-> msb,
         inner_mod_N |-> inner_mod_N, rounded |-> rounded, result |-> result]

\* a faulty variant: round to nearest instead of floor
evaluate_multiple_steps_nearest(inner_product, N, p) ==
    LET inner_mod_2N == inner_product % (2 * N)
        msb == IF inner_mod_2N >= N THEN 1 ELSE 0
        inner_mod_N == inner_product % N
        rounded == (2 * p * inner_mod_N + N) \div (2 * N)
        result == IF msb = 1 THEN (p - rounded) % p ELSE rounded % p
    IN  [set |-> TRUE, inner_mod_2N |-> inner_mod_2N, msb |-> msb,
         inner_mod_N |-> inner_mod_N, rounded |-> rounded, result |-> result]

evaluate_multiple_steps(inner_product, N, p) ==
    LET inner_mod_2N == inner_product % (2 * N)
        msb == IF inner_mod_2N >= N THEN 1 ELSE 0
        inner_mod_N == inner_product % N
        rounded == (p * inner_mod_N) \div N
        result == IF msb = 1 THEN (p - rounded) % p ELSE rounded % p
    IN  [set |-> TRUE, inner_mod_2N |-> inner_mod_2N, msb |-> msb,
         inner_mod_N |-> inner_mod_N, rounded |-> rounded, result |-> result]

manual_steps(inner_product, N, p) ==
    LET inner_mod_2N == inner_product % (2 * N)
        inner_mod_N == inner_product % N
        msb == IF inner_mod_2N >= N THEN 1 ELSE 0
        rounded == (p * inner_mod_N) \div N
        prf_out == IF msb = 1 THEN (p - rounded) % p ELSE rounded % p
    IN  [set |-> TRUE, inner_mod_2N |-> inner_mod_2N, msb |-> msb,
         inner_mod_N |-> inner_mod_N, rounded |-> rounded, result |-> prf_out]

(***************************************************************************)
(* Idle values of the parts a specification does not exercise.             *)
(***************************************************************************)
NoFile == [exists |-> FALSE, n_lwr |-> 0, secret_key |-> << >>]
NoClient == [ok |-> FALSE, n |-> 0, N |-> 0, p |-> 0, s |-> << >>]
NoCtor == [force |-> FALSE, path |-> "none", err |-> "none"]
NoCall == [op |-> "none", x |-> 0, count |-> 0, arg |-> << >>,
           prf_stream |-> << >>, ret |-> << >>, plain |-> << >>]

KeyIdle == dim = 0 /\ file = NoFile /\ client = NoClient /\ ctor = NoCtor
PrfIdle == par = [N |-> 1, p |-> 1] /\ ip = 0 /\ ev = NoSteps /\ evm = NoSteps
DotIdle == vec = [a |-> << >>, s |-> << >>] /\ acc = U64Zero
CipherIdle == inp = [nonce |-> 0, message |-> << >>] /\ call = NoCall

(***************************************************************************)
(* SpecPrf: the rounding pipeline applied to every inner product value.    *)
(***************************************************************************)
InitPrf ==
    /\ \E N \in 1..MaxRing, p \in 1..MaxP : par = [N |-> N, p |-> p]
    /\ ip = 0 /\ ev = NoSteps /\ evm = NoSteps
    /\ KeyIdle /\ DotIdle /\ CipherIdle

\* evaluate, from the inner product on
EvaluateOnIp ==
    \E v \in 0..MaxIp :
        /\ ip' = v
        /\ ev' = evaluate_steps(v, par.N, par.p)
        /\ evm' = NoSteps
        /\ UNCHANGED <<par, keyVars, dotVars, cipherVars>>

\* one pass of the loop of evaluate_multiple, from the inner product on
EvaluateMultipleOnIp ==
    \E v \in 0..MaxIp :
        /\ ip' = v
        /\ evm' = evaluate_multiple_steps(v, par.N, par.p)
        /\ ev' = NoSteps
        /\ UNCHANGED <<par, keyVars, dotVars, cipherVars>>

NextPrf == EvaluateOnIp \/ EvaluateMultipleOnIp

SpecPrf == InitPrf /\ [][NextPrf]_vars

\* C2: the PRF evaluation returns a value in [0, p) for every inner product,
\* in the msb = 0 and in the msb = 1 branch, in evaluate and in
\* evaluate_multiple; msb = 1 with rounded = 0 yields 0, not p.
C2_OutputInRange ==
    \A r \in {ev, evm} :
        r.set => /\ r.result \in 0..(par.p - 1)
                 /\ (r.msb = 1 /\ r.rounded = 0) => r.result = 0

\* the msb = 1, rounded = 0 case has been evaluated with p > 1
C2_Witness ==
    ev.set /\ ev.msb = 1 /\ ev.rounded = 0 /\ par.p > 1 /\ ev.result = 0

\* C10: rounded = floor(p * (ip mod N) / N) lies in [0, p-1], never p; the
\* msb = 0 branch returns rounded unchanged, the msb = 1 branch returns
\* p - rounded when rounded > 0 and 0 when rounded = 0.
C10_RoundedBelowP ==
    \A r \in {ev, evm} :
        r.set => /\ r.rounded \in 0..(par.p - 1)
                 /\ r.msb = 0 => r.result = r.rounded
                 /\ (r.msb = 1 /\ r.rounded > 0) => r.result = par.p - r.rounded
                 /\ (r.msb = 1 /\ r.rounded = 0) => r.result = 0

\* the boundary ip mod N = N - 1 has been evaluated in the negating branch
C10_Witness ==
    /\ evm.set /\ par.N > 1 /\ par.p > 1
    /\ evm.inner_mod_N = par.N - 1 /\ evm.msb = 1 /\ evm.rounded = par.p - 1

(***************************************************************************)
(* SpecDot: np.dot on every hash vector and every binary key.              *)
(***************************************************************************)
BitVectors(n) == [1..n -> {0, 1}]
HashVectors(n, N) == [1..n -> 0..(2 * N - 1)]

\* a hash vector a and a key s, of one length, for every N and p
InitDot ==
    /\ \E N \in 1..MaxRing, p \in 1..MaxP : par = [N |-> N, p |-> p]
    /\ \E n \in 1..MaxDim :
           \E a \in HashVectors(n, par.N), s \in BitVectors(n) :
               vec = [a |-> a, s |-> s]
    /\ acc = U64Zero
    /\ ip = 0 /\ ev = NoSteps /\ evm = NoSteps
    /\ KeyIdle /\ CipherIdle

\* evaluate from the hash vector on: inner_product = np.dot(a, self.s), then
\* the reductions mod 2N and mod N taken of it
InnerProduct ==
    /\ acc' = np_dot(vec.a, vec.s)
    /\ ip' = U64Value(acc')
    /\ ev' = evaluate_steps(ip', par.N, par.p)
    /\ UNCHANGED <<par, vec, evm, keyVars, cipherVars>>

NextDot == InnerProduct

SpecDot == InitDot /\ [][NextDot]_vars

XofWord(x, index, j) ==
    ((7 + x * 13 + index * 5 + j * 3) * (12 + x) + index * j) % 61

\* a = hash_to_vector(x, index): n words, each reduced mod 2N
hash_to_vector(c, x, index) ==
    [i \in 1..c.n |-> XofWord(x, index, i) % (2 * c.N)]

evaluate(c, x) ==
    LET a == hash_to_vector(c, x, 0)
        inner_product == U64Value(np_dot(a, c.s))
    IN  evaluate_steps(inner_product, c.N, c.p).result

\* the loop of evaluate_multiple: for i in range(count)
RECURSIVE EvaluateLoop(_, _, _, _, _)
EvaluateLoop(c, x, count, i, outputs) ==
    IF i >= count THEN outputs
    ELSE LET a == hash_to_vector(c, x, i)
             inner_product == U64Value(np_dot(a, c.s))
             result == evaluate_multiple_steps(inner_product, c.N, c.p).result
         IN  EvaluateLoop(c, x, count, i + 1, Append(outputs, result))

\* a faulty variant: the inner product is carried over from one slot to the next
RECURSIVE CarryLoop(_, _, _, _, _, _)
CarryLoop(c, x, count, i, outputs, carried) ==
    IF i >= count THEN outputs
    ELSE LET a == hash_to_vector(c, x, i)
             inner_product == carried + U64Value(np_dot(a, c.s))
             result == evaluate_multiple_steps(inner_product, c.N, c.p).result
         IN  CarryLoop(c, x, count, i + 1, Append(outputs, result), inner_product)

evaluate_multiple_carry(c, x, count) == CarryLoop(c, x, count, 0, << >>, 0)

\* a faulty variant: the loop stops one slot early
evaluate_multiple_short(c, x, count) ==
    EvaluateLoop(c, x, count - 1, 0, << >>)

evaluate_multiple(c, x, count) == EvaluateLoop(c, x, count, 0, << >>)

\* the length of zip(m, n): that of the shorter sequence
Min(m, n) == IF m <= n THEN m ELSE n

\* the remainder of a language whose % truncates toward zero
TruncRem(v, p) == IF v >= 0 THEN v % p ELSE 0 - ((0 - v) % p)

\* encrypt_message: [prf_stream, out]; zip stops at the shorter sequence
encrypt_message(c, message, nonce) ==
    LET prf_stream == evaluate_multiple(c, nonce, Len(message))
        ciphertext == [i \in 1..Min(Len(message), Len(prf_stream)) |->
                          (message[i] + prf_stream[i]) % c.p]
    IN  [prf_stream |-> prf_stream, out |-> ciphertext]

\* a faulty variant: (c - prf) reduced with a truncating remainder, without the + p
decrypt_message_trunc(c, nonce, ciphertext) ==
    LET prf_stream == evaluate_multiple(c, nonce, Len(ciphertext))
        message == [i \in 1..Min(Len(ciphertext), Len(prf_stream)) |->
                       TruncRem(ciphertext[i] - prf_stream[i], c.p)]
    IN  [prf_stream |-> prf_stream, out |-> message]

decrypt_message(c, nonce, ciphertext) ==
    LET prf_stream == evaluate_multiple(c, nonce, Len(ciphertext))
        message == [i \in 1..Min(Len(ciphertext), Len(prf_stream)) |->
                       (ciphertext[i] + c.p - prf_stream[i]) % c.p]
    IN  [prf_stream |-> prf_stream, out |-> message]

\* the manual calculation of the test-vector script for slot index
manual_prf(c, nonce, index) ==
    LET a == hash_to_vector(c, nonce, index)
        inner_product == U64Value(np_dot(a, c.s))
    IN  manual_steps(inner_product, c.N, c.p).result

\* the byte strings passed as x / nonce, numbered
Nonces == 1..MaxNonce
\* the messages over Z_p, the empty one included
Messages(p) == UNION {[1..l -> 0..(p - 1)] : l \in 0..MaxLen}

\* SpecCipher: one client as a generating construction leaves it (n bits of
\* key, any N and p >= 1), and the caller's nonce and message
InitCipher ==
    /\ \E n \in 1..MaxDim, N \in 1..MaxRing, p \in 1..MaxP :
           \E s \in BitVectors(n) :
               client = [ok |-> TRUE, n |-> n, N |-> N, p |-> p, s |-> s]
    /\ \E nonce \in Nonces, message \in Messages(client.p) :
           inp = [nonce |-> nonce, message |-> message]
    /\ call = NoCall
    /\ dim = client.n /\ file = NoFile /\ ctor = NoCtor
    /\ PrfIdle /\ DotIdle

Evaluate ==
    /\ call' = [NoCall EXCEPT !.op = "evaluate", !.x = inp.nonce,
                              !.ret = <<evaluate(client, inp.nonce)>>]
    /\ UNCHANGED <<inp, keyVars, prfVars, dotVars>>

EvaluateMultiple ==
    \E count \in 0..MaxLen :
        /\ call' = [NoCall EXCEPT !.op = "evaluate_multiple", !.x = inp.nonce,
                        !.count = count,
                        !.ret = evaluate_multiple(client, inp.nonce, count)]
        /\ UNCHANGED <<inp, keyVars, prfVars, dotVars>>

EncryptMessage ==
    /\ LET r == encrypt_message(client, inp.message, inp.nonce)
       IN  call' = [op |-> "encrypt_message", x |-> inp.nonce, count |-> 0,
                    arg |-> inp.message, prf_stream |-> r.prf_stream,
                    ret |-> r.out, plain |-> inp.message]
    /\ UNCHANGED <<inp, keyVars, prfVars, dotVars>>

\* the receiver decrypts the (nonce, ciphertext) the latest encryption returned
DecryptMessage ==
    /\ call.op = "encrypt_message"
    /\ LET r == decrypt_message(client, call.x, call.ret)
       IN  call' = [op |-> "decrypt_message", x |-> call.x, count |-> 0,
                    arg |-> call.ret, prf_stream |-> r.prf_stream,
                    ret |-> r.out, plain |-> call.plain]
    /\ UNCHANGED <<inp, keyVars, prfVars, dotVars>>

NextCipher == Evaluate \/ EvaluateMultiple \/ EncryptMessage \/ DecryptMessage

SpecCipher == InitCipher /\ [][NextCipher]_vars

\* C1: round trip: decrypt_message(nonce, encrypt_message(m, nonce).ciphertext)
\* equals m, element for element and in length, for every nonce and every
\* message over [0, p), the empty one included.
C1_RoundTrip ==
    call.op = "decrypt_message" => call.ret = call.plain

\* a full-length message was decrypted whose encryption wrapped around p
C1_Witness ==
    /\ call.op = "decrypt_message" /\ Len(call.plain) = MaxLen
    /\ call.ret = call.plain
    /\ \E i \in 1..Len(call.plain) :
           /\ call.plain[i] + call.prf_stream[i] >= client.p
           /\ call.arg[i] < call.prf_stream[i]

\* C3: evaluate_multiple(x, count) returns exactly count outputs, element i
\* being the single-slot evaluation of hash_to_vector(x, i) against s,
\* whatever the count; evaluate(x) is evaluate_multiple(x, count)[0].
C3_SlotsIndependent ==
    /\ call.op = "evaluate_multiple" =>
           /\ Len(call.ret) = call.count
           /\ \A i \in 0..(call.count - 1) :
                  call.ret[i + 1] = manual_prf(client, call.x, i)
           /\ \A c \in call.count..MaxLen :
                  SubSeq(evaluate_multiple(client, call.x, c), 1, call.count)
                      = call.ret
    /\ call.op = "evaluate" =>
           \A c \in 1..MaxLen :
               call.ret[1] = evaluate_multiple(client, call.x, c)[1]

\* MaxLen outputs were generated that are not all equal
C3_Witness ==
    /\ call.op = "evaluate_multiple" /\ call.count = MaxLen
    /\ Len(call.ret) = MaxLen
    /\ \E i, j \in 1..MaxLen : call.ret[i] # call.ret[j]

\* C7: in encrypt_message and decrypt_message the input and the keystream
\* have the same length, the output has the input's length, and position i
\* is combined with keystream element i: nothing is dropped or padded.
C7_LengthsAgree ==
    call.op \in {"encrypt_message", "decrypt_message"} =>
        /\ Len(call.prf_stream) = Len(call.arg)
        /\ Len(call.ret) = Len(call.arg)
        /\ \A i \in 1..Len(call.arg) :
               call.ret[i] = (IF call.op = "encrypt_message"
                              THEN call.arg[i] + call.prf_stream[i]
                              ELSE call.arg[i] + client.p - call.prf_stream[i]) % client.p

\* a message of full length was encrypted
C7_Witness ==
    /\ call.op = "encrypt_message" /\ Len(call.arg) = MaxLen
    /\ Len(call.prf_stream) = MaxLen /\ Len(call.ret) = MaxLen

(***************************************************************************)
(* Secret key store: construction, load and save.                          *)
(***************************************************************************)
\* A number of the key file's JSON list: whole, or whole + 1/2.
JsonNumbers == [whole : 0..MaxStored, half : BOOLEAN]

\* self.s.tolist(), as json.dump writes it: whole numbers
tolist(s) == [i \in 1..Len(s) |-> [whole |-> s[i], half |-> FALSE]]

\* np.array(key_data["secret_key"], dtype=np.uint64): each number is
\* converted to uint64, a fraction being cut off
as_uint64(list) == [i \in 1..Len(list) |-> list[i].whole]

\* _save_secret_key: the file it writes
_save_secret_key(c) == [exists |-> TRUE, n_lwr |-> c.n, secret_key |-> tolist(c.s)]

\* _load_secret_key with self.n = n on key file f: the error raised, or the key
_load_secret_key(n, f) ==
    IF f.n_lwr # n THEN [err |-> "DimensionMismatch", s |-> << >>]
    ELSE LET s == as_uint64(f.secret_key)
         IN  IF \E i \in 1..Len(s) : ~(s[i] = 0 \/ s[i] = 1)
             THEN [err |-> "InvalidKeyData", s |-> << >>]
             ELSE [err |-> "none", s |-> s]

\* a faulty variant: force_regenerate is ignored when the key file exists
takes_load_path_ignoring_force(force, f) == f.exists

\* __init__: if not force_regenerate and os.path.exists(key_file)
takes_load_path(force, f) == ~force /\ f.exists

\* np.random.seed(seed); np.random.randint(0, 2, size=n): the generator cannot
\* be computed here; it is one fixed function of (seed, n)
NoSeed == 0 - 1
randint_bits(seed, n) == [i \in 1..n |-> ((seed + 1) * i + (seed \div 2)) % 2]

\* the keys generation may draw: any, when no seed is given
generated_keys(seed, n) ==
    IF seed = NoSeed THEN BitVectors(n) ELSE {randint_bits(seed, n)}

\* LWR_PRF_Client(n = dim, N, p, seed, key_file, force_regenerate)
Construct ==
    \E N \in 1..MaxRing, p \in 0..MaxP, seed \in {NoSeed} \cup 0..MaxSeed,
       force \in BOOLEAN :
        IF takes_load_path(force, file)
        THEN LET r == _load_secret_key(dim, file)
             IN  /\ ctor' = [force |-> force, path |-> "load", err |-> r.err]
                 /\ client' = IF r.err = "none"
                              THEN [ok |-> TRUE, n |-> dim, N |-> N, p |-> p, s |-> r.s]
                              ELSE NoClient
                 /\ UNCHANGED <<dim, file, prfVars, dotVars, cipherVars>>
        ELSE \E s \in generated_keys(seed, dim) :
                 LET c == [ok |-> TRUE, n |-> dim, N |-> N, p |-> p, s |-> s]
                 IN  /\ client' = c
                     /\ file' = _save_secret_key(c)
                     /\ ctor' = [force |-> force, path |-> "generate", err |-> "none"]
                     /\ UNCHANGED <<dim, prfVars, dotVars, cipherVars>>

NextKey == Construct

\* the key files a construction may find: none, or any record with a
\* dimension and a list of numbers
KeyFiles ==
    {NoFile} \cup
    {[exists |-> TRUE, n_lwr |-> d, secret_key |-> k] :
        d \in 1..MaxDim,
        k \in UNION {[1..l -> JsonNumbers] : l \in 0..MaxDim}}

\* SpecKey: constructions on a key-file path that may hold any key file
InitKey ==
    /\ dim \in 1..MaxDim
    /\ file \in KeyFiles
    /\ client = NoClient /\ ctor = NoCtor
    /\ PrfIdle /\ DotIdle /\ CipherIdle

SpecKey == InitKey /\ [][NextKey]_vars

\* SpecLifecycle: constructions on a key-file path that starts without a
\* file, so that every file it holds was written by a construction
InitLifecycle ==
    /\ dim \in 1..MaxDim
    /\ file = NoFile
    /\ client = NoClient /\ ctor = NoCtor
    /\ PrfIdle /\ DotIdle /\ CipherIdle

SpecLifecycle == InitLifecycle /\ [][NextKey]_vars

ExactBit(v) == ~v.half /\ (v.whole = 0 \/ v.whole = 1)

\* C4: on the load path, a stored dimension other than n fails with a
\* dimension mismatch, and a stored value that is not exactly 0 or 1 fails
\* with invalid key data; either way no client results and the key file is
\* left unchanged.
C4_LoadRejectsMalformed ==
    [][ctor'.path = "load" =>
          /\ file' = file
          /\ file.n_lwr # dim =>
                 (ctor'.err = "DimensionMismatch" /\ ~client'.ok)
          /\ (file.n_lwr = dim
                 /\ \E i \in 1..Len(file.secret_key) : ~ExactBit(file.secret_key[i])) =>
                 (ctor'.err = "InvalidKeyData" /\ ~client'.ok)]_vars

\* C5: every constructed client holds a key of exactly n elements, each 0 or 1.
C5_KeyHasDimension ==
    client.ok => /\ Len(client.s) = client.n
                 /\ \A i \in 1..Len(client.s) : client.s[i] \in {0, 1}

\* C6: a construction without force_regenerate on an existing file loads the
\* stored key and does not write the file; one with no file, or with
\* force_regenerate, generates a key and writes it with dimension n; after a
\* successful construction the file holds dimension n and the client's key.
C6_KeyLifecycle ==
    [][LET load == ~ctor'.force /\ file.exists
       IN  /\ ctor'.path = (IF load THEN "load" ELSE "generate")
           /\ load => (file' = file /\ client'.ok
                          /\ tolist(client'.s) = file.secret_key)
           /\ ~load => (client'.ok /\ file' = [exists |-> TRUE, n_lwr |-> dim,
                                                secret_key |-> tolist(client'.s)])
           /\ client'.ok => (file'.exists /\ file'.n_lwr = dim
                                /\ file'.secret_key = tolist(client'.s))]_vars

\* a key written by one construction was loaded by a later one
C6_Witness ==
    /\ ctor.path = "load" /\ ~ctor.force /\ client.ok
    /\ file.exists /\ file.secret_key = tolist(client.s)

IsPowerOfTwo(N) == \E e \in 0..N : 2^e = N

\* C8: every constructed client has 1 <= p <= 2N and N a power of two.
C8_ParametersValid ==
    client.ok => /\ 1 <= client.p /\ client.p <= 2 * client.N
                 /\ IsPowerOfTwo(client.N)

====
